---- MODULE Spec2Model ----
(***************************************************************************)
(* Model of the validation-and-mutation engine of mcp-text-editor          *)
(* (src/src/mcp_text_editor/text_editor.py): the content matcher, the      *)
(* range overlap predicate and the four mutation calls (patch, delete,     *)
(* insert, append) acting on one file on disk; further on, the read-range  *)
(* query (read_multiple_ranges) and the dispatch of tool calls by name     *)
(* (server.py, ToolManager.call_tool).                                     *)
(*                                                                         *)
(* A string is a sequence of characters; a character is one of the names   *)
(* in Chars.  "LF" is '\n', "CR" is '\r', "FF" is '\f' (form feed), "SP"   *)
(* is ' ', "NA" is a letter outside ASCII (such as U+00E9).                *)
(***************************************************************************)
EXTENDS Integers, Sequences, FiniteSets, TLC

(***************************************************************************)
(* Bounds of the model.                                                    *)
(***************************************************************************)
\* Every document of up to MaxLines lines over Bodies is a starting file.
MaxLines == 3
\* Largest length of the strings handed to the content matcher on its own.
MaxStrLen == 3

(***************************************************************************)
(* Characters and Python's str primitives.                                 *)
(***************************************************************************)
Chars == {"a", "b", "SP", "LF", "CR", "FF", "NA"}

\* The characters at which str.splitlines() ends a line.
LineBreaks == {"LF", "CR", "FF"}

\* The characters str.rstrip() removes.
Whitespace == {"SP", "LF", "CR", "FF"}

\* "".join(parts)
RECURSIVE Join(_)
Join(parts) ==
    IF parts = <<>> THEN <<>> ELSE Head(parts) \o Join(Tail(parts))

\* s.endswith("\n")
EndsWithNewline(s) == Len(s) > 0 /\ s[Len(s)] = "LF"

\* s.strip(): a matcher that also dropped leading whitespace would use this.
RECURSIVE StripBoth(_)
StripBoth(s) ==
    IF s = <<>> THEN <<>>
    ELSE IF s[Len(s)] \in {"SP", "LF", "CR", "FF"}
    THEN StripBoth(SubSeq(s, 1, Len(s) - 1))
    ELSE IF s[1] \in {"SP", "LF", "CR", "FF"} THEN StripBoth(Tail(s))
    ELSE s

\* s.rstrip()
RECURSIVE Rstrip(_)
Rstrip(s) ==
    IF s = <<>> THEN <<>>
    ELSE IF s[Len(s)] \in Whitespace THEN Rstrip(SubSeq(s, 1, Len(s) - 1))
    ELSE s

\* s.splitlines(keepends): scan from position i, the current line starting
\* at position from; "\r\n" is one line boundary.
RECURSIVE SplitScan(_, _, _, _)
SplitScan(s, i, from, keepends) ==
    IF i > Len(s)
    THEN IF from <= Len(s) THEN <<SubSeq(s, from, Len(s))>> ELSE <<>>
    ELSE IF s[i] \in LineBreaks
    THEN LET eol == IF s[i] = "CR" /\ i < Len(s) /\ s[i + 1] = "LF"
                    THEN i + 1 ELSE i
             line == IF keepends THEN SubSeq(s, from, eol)
                     ELSE SubSeq(s, from, i - 1)
         IN <<line>> \o SplitScan(s, eol + 1, eol + 1, keepends)
    ELSE SplitScan(s, i + 1, from, keepends)

splitlines(s, keepends) == SplitScan(s, 1, 1, keepends)

\* lines[lo:hi] for 0 <= lo and 0 <= hi (Python slice, 0-based, hi excluded).
PySlice(lines, lo, hi) ==
    LET top == IF hi > Len(lines) THEN Len(lines) ELSE hi
    IN IF top <= lo THEN <<>> ELSE SubSeq(lines, lo + 1, top)

\* The list after `lines[lo:hi] = new` (del lines[lo:hi] when new is empty),
\* for 0 <= lo <= len(lines): a slice with hi < lo is the empty slice at lo.
PySplice(lines, lo, hi, new) ==
    LET top0 == IF hi > Len(lines) THEN Len(lines) ELSE hi
        top == IF top0 < lo THEN lo ELSE top0
    IN SubSeq(lines, 1, lo) \o new \o SubSeq(lines, top + 1, Len(lines))

(***************************************************************************)
(* Content matcher.                                                        *)
(***************************************************************************)
\* The zip loop of _content_matches: every pair of lines from position i on
\* is equal once rstrip()ped.
RECURSIVE LinesMatchFrom(_, _, _)
LinesMatchFrom(actual_lines, expected_lines, i) ==
    IF i > Len(actual_lines) \/ i > Len(expected_lines) THEN TRUE
    ELSE IF Rstrip(actual_lines[i]) # Rstrip(expected_lines[i]) THEN FALSE
    ELSE LinesMatchFrom(actual_lines, expected_lines, i + 1)

\* The matcher without its exact branch: every comparison is flexible.
FlexibleOnlyMatches(actual, expected, require_exact_match) ==
    LET actual_lines == splitlines(actual, FALSE)
        expected_lines == splitlines(expected, FALSE)
    IN /\ Len(actual_lines) = Len(expected_lines)
       /\ \A i \in 1..Len(actual_lines) :
              Rstrip(actual_lines[i]) = Rstrip(expected_lines[i])

_content_matches(actual, expected, require_exact_match) ==
    IF require_exact_match THEN actual = expected
    ELSE LET actual_lines == splitlines(actual, FALSE)
             expected_lines == splitlines(expected, FALSE)
         IN IF Len(actual_lines) # Len(expected_lines) THEN FALSE
            ELSE LinesMatchFrom(actual_lines, expected_lines, 1)

(***************************************************************************)
(* Ranges and the overlap predicate.                                       *)
(***************************************************************************)
\* Python's None for the "end" of a range; a given end e is <<e>>.
None == <<>>

Range(start, end) == [start |-> start, end |-> end]

\* range["end"] or range["start"]: None and 0 are both falsy.
EndOrStart(range) ==
    IF range.end = None THEN range.start
    ELSE IF range.end[1] = 0 THEN range.start
    ELSE range.end[1]

\* The overlap test with strict comparisons, which lets ranges that share
\* only a boundary line through.
StrictRangesOverlap(range1, range2) ==
    /\ range1.start < EndOrStart(range2)
    /\ EndOrStart(range1) > range2.start

_ranges_overlap(range1, range2) ==
    LET start1 == range1.start
        end1 == EndOrStart(range1)
        start2 == range2.start
        end2 == EndOrStart(range2)
    IN start1 <= end2 /\ end1 >= start2

\* The nested loops over i < j of one list of ranges.
AnyOverlap(ranges) ==
    \E i \in 1..Len(ranges) : \E j \in (i + 1)..Len(ranges) :
        _ranges_overlap(ranges[i], ranges[j])

\* all_ranges: the ranges of every operation, in request order.
RECURSIVE AllRanges(_)
AllRanges(ops) ==
    IF ops = <<>> THEN <<>> ELSE Head(ops).ranges \o AllRanges(Tail(ops))

(***************************************************************************)
(* sorted(..., reverse=True): a stable sort, so items with equal keys keep *)
(* the order of the request.                                               *)
(***************************************************************************)
\* The position in the sorted list of the item at position i.
RankDesc(keys, i) ==
    1 + Cardinality({j \in 1..Len(keys) :
                        keys[j] > keys[i] \/ (keys[j] = keys[i] /\ j < i)})

SortedDescByKeys(items, keys) ==
    [k \in 1..Len(items) |->
        items[CHOOSE i \in 1..Len(items) : RankDesc(keys, i) = k]]

\* max(range_spec["start"] for range_spec in op["ranges"])
MaxStart(op) ==
    CHOOSE m \in {op.ranges[i].start : i \in 1..Len(op.ranges)} :
        \A i \in 1..Len(op.ranges) : op.ranges[i].start <= m

\* sorted(ops, key=max start, reverse=True)
SortedOps(ops) ==
    SortedDescByKeys(ops, [i \in 1..Len(ops) |-> MaxStart(ops[i])])

\* sorted(ranges, key=start, reverse=True)
SortedRanges(ranges) ==
    SortedDescByKeys(ranges, [i \in 1..Len(ranges) |-> ranges[i].start])

(***************************************************************************)
(* Results.                                                                *)
(***************************************************************************)
\* create_error_response: suggestion and hint are left out when not given
\* (modelled as "").
create_error_response(reason, suggestion, hint) ==
    [result |-> "error", reason |-> reason, suggestion |-> suggestion,
     hint |-> hint]

OkResult == [result |-> "ok", reason |-> "", suggestion |-> "", hint |-> ""]

\* The hint suffix chosen by require_exact_match on a content mismatch.
MatchHint(require_exact_match) ==
    IF require_exact_match THEN "exact whitespace match required"
    ELSE "trailing whitespace ignored"

(***************************************************************************)
(* The file on disk and text-mode I/O.                                     *)
(***************************************************************************)
Encodings == {"utf-8", "ascii"}

\* Whether text can be encoded to (and file content decoded from) the codec.
Encodable(text, encoding) ==
    encoding = "utf-8" \/ \A i \in 1..Len(text) : text[i] # "NA"

\* Reading in text mode translates "\r\n" and "\r" to "\n".
RECURSIVE UniversalNewlines(_)
UniversalNewlines(s) ==
    IF s = <<>> THEN <<>>
    ELSE IF s[1] = "CR"
    THEN IF Len(s) > 1 /\ s[2] = "LF"
         THEN <<"LF">> \o UniversalNewlines(SubSeq(s, 3, Len(s)))
         ELSE <<"LF">> \o UniversalNewlines(Tail(s))
    ELSE <<s[1]>> \o UniversalNewlines(Tail(s))

\* read_file_contents(file_path, encoding=encoding)[0]: the whole text.
read_file_contents(content) == UniversalNewlines(content)

\* The list `lines` every mutation call builds from the text it read.
LoadLines(content) ==
    LET current_file_content == read_file_contents(content)
    IN IF current_file_content = <<>> THEN <<>>
       ELSE splitlines(current_file_content, TRUE)

\* with open(file_path, "w") as f: f.write(text).  Opening truncates the
\* file; the text is encoded when written, so text the codec cannot encode
\* raises after the truncation.
WriteFile(text, encoding) ==
    IF Encodable(text, encoding)
    THEN [raised |-> FALSE, content |-> text]
    ELSE [raised |-> TRUE, content |-> <<>>]

\* The append written as if the file had been opened with "w": the previous
\* content is lost.
AppendFileTruncating(content, text, encoding) ==
    IF Encodable(text, encoding)
    THEN [raised |-> FALSE, content |-> text]
    ELSE [raised |-> TRUE, content |-> <<>>]

\* with open(file_path, "a") as f: f.write(text).  Nothing is truncated;
\* text the codec cannot encode raises before anything is written.
AppendFile(content, text, encoding) ==
    IF Encodable(text, encoding)
    THEN [raised |-> FALSE, content |-> content \o text]
    ELSE [raised |-> TRUE, content |-> content]

\* What a call returns and leaves on disk.
Outcome(res, content) == [res |-> res, content |-> content]

\* start_zero and end_zero of a range against the current buffer.
StartZero(range) == range.start - 1

EndZero(lines, range) ==
    IF range.end = None THEN Len(lines) - 1 ELSE range.end[1] - 1

(***************************************************************************)
(* delete_text_file_contents_v2                                            *)
(***************************************************************************)
\* The validation loop over the ranges of one deletion, from range i on,
\* against the buffer as it is when the deletion is reached.
RECURSIVE DeleteValidateRanges(_, _, _, _, _)
DeleteValidateRanges(lines, ranges, i, expected_content, require_exact_match) ==
    IF i > Len(ranges) THEN OkResult
    ELSE LET range_spec == ranges[i]
             start_zero == StartZero(range_spec)
             end_zero == EndZero(lines, range_spec)
             actual_content == Join(PySlice(lines, start_zero, end_zero + 1))
         IN IF start_zero < 0 \/ start_zero >= Len(lines)
            THEN create_error_response("Start line is out of range", "", "")
            ELSE IF end_zero >= Len(lines)
            THEN create_error_response("End line is out of range", "", "")
            ELSE IF ~_content_matches(actual_content, expected_content,
                                      require_exact_match)
            THEN create_error_response("Content does not match expected string",
                                       "", MatchHint(require_exact_match))
            ELSE DeleteValidateRanges(lines, ranges, i + 1, expected_content,
                                      require_exact_match)

\* The deletion loop over the ranges of one deletion, sorted by start,
\* highest first, from range i on: del lines[start_zero:end_zero + 1].
RECURSIVE DeleteApplyRanges(_, _, _)
DeleteApplyRanges(lines, sorted_ranges, i) ==
    IF i > Len(sorted_ranges) THEN lines
    ELSE LET range_spec == sorted_ranges[i]
             start_zero == StartZero(range_spec)
             end_zero == EndZero(lines, range_spec)
         IN DeleteApplyRanges(PySplice(lines, start_zero, end_zero + 1, <<>>),
                              sorted_ranges, i + 1)

\* The buffer after one deletion has been applied to it.
DeleteApply(lines, deletion) ==
    DeleteApplyRanges(lines, SortedRanges(deletion.ranges), 1)

\* The loop over sorted_deletions from deletion k on: validate, then apply.  seen
\* records the buffer each deletion reached was validated against.
RECURSIVE DeleteLoop(_, _, _, _)
DeleteLoop(lines, sorted_deletions, k, require_exact_match) ==
    IF k > Len(sorted_deletions)
    THEN [res |-> OkResult, lines |-> lines, seen |-> <<>>]
    ELSE LET deletion == sorted_deletions[k]
             checked == DeleteValidateRanges(lines, deletion.ranges, 1,
                                             deletion.expected_content,
                                             require_exact_match)
         IN IF checked.result = "error"
            THEN [res |-> checked, lines |-> lines, seen |-> <<lines>>]
            ELSE LET rest == DeleteLoop(DeleteApply(lines, deletion), sorted_deletions, k + 1,
                                 require_exact_match)
                 IN [rest EXCEPT !.seen = <<lines>> \o @]

delete_text_file_contents_v2(exists, content, deletions, encoding, require_exact_match) ==
    IF ~exists
    THEN Outcome(create_error_response("File not found", "",
                     "File must exist before deleting content"), content)
    ELSE IF ~Encodable(content, encoding)
    THEN Outcome(create_error_response("Exception", "", ""), content)
    ELSE IF \E d \in 1..Len(deletions) : AnyOverlap(deletions[d].ranges)
    THEN Outcome(create_error_response(
                     "Overlapping ranges within deletion detected", "",
                     "Ranges within a single deletion cannot overlap"), content)
    ELSE IF AnyOverlap(AllRanges(deletions))
    THEN Outcome(create_error_response(
                     "Overlapping ranges across deletions detected", "",
                     "Ranges across different deletions cannot overlap"),
                 content)
    ELSE LET done == DeleteLoop(LoadLines(content), SortedOps(deletions), 1,
                                require_exact_match)
             written == WriteFile(Join(done.lines), encoding)
         IN IF done.res.result = "error" THEN Outcome(done.res, content)
            ELSE IF written.raised
            THEN Outcome(create_error_response("Exception", "", ""),
                         written.content)
            ELSE Outcome(OkResult, written.content)

(***************************************************************************)
(* edit_file_contents_v2 (patch)                                           *)
(***************************************************************************)
\* The validation loop over the ranges of one patch, from range i on,
\* against the buffer as it is when the patch is reached.
RECURSIVE PatchValidateRanges(_, _, _, _, _)
PatchValidateRanges(lines, ranges, i, old_string, require_exact_match) ==
    IF i > Len(ranges) THEN OkResult
    ELSE LET range_spec == ranges[i]
             start_zero == StartZero(range_spec)
             end_zero == EndZero(lines, range_spec)
             actual_content == Join(PySlice(lines, start_zero, end_zero + 1))
         IN IF start_zero < 0 \/ start_zero >= Len(lines)
            THEN create_error_response("Invalid start line: out of range",
                     "patch", "Line numbers must be within file bounds")
            ELSE IF range_spec.end # None
                    /\ (end_zero < start_zero \/ end_zero >= Len(lines))
            THEN create_error_response("Invalid end line: out of range",
                     "patch",
                     "End line must be >= start line and within file bounds")
            ELSE IF ~_content_matches(actual_content, old_string,
                                      require_exact_match)
            THEN create_error_response("Content does not match expected string",
                     "patch", MatchHint(require_exact_match))
            ELSE PatchValidateRanges(lines, ranges, i + 1, old_string,
                                     require_exact_match)

\* The replacement lines without the terminator the code adds when
\* new_string does not end with one.
NewLinesAsGiven(new_string) == splitlines(new_string, TRUE)

\* new_content.splitlines(keepends=True), new_content being new_string with
\* "\n" added when it does not end with one.
NewLines(new_string) ==
    LET new_content == IF EndsWithNewline(new_string) THEN new_string
                       ELSE new_string \o <<"LF">>
    IN splitlines(new_content, TRUE)

\* The replacement loop over the ranges of one patch, sorted by start,
\* highest first, from range i on: lines[start_zero:end_zero + 1] = new_lines.
RECURSIVE PatchApplyRanges(_, _, _, _)
PatchApplyRanges(lines, sorted_ranges, i, new_string) ==
    IF i > Len(sorted_ranges) THEN lines
    ELSE LET range_spec == sorted_ranges[i]
             start_zero == StartZero(range_spec)
             end_zero == EndZero(lines, range_spec)
         IN PatchApplyRanges(PySplice(lines, start_zero, end_zero + 1,
                                      NewLines(new_string)),
                             sorted_ranges, i + 1, new_string)

\* The buffer after one patch has been applied to it.
PatchApply(lines, patch) ==
    PatchApplyRanges(lines, SortedRanges(patch.ranges), 1, patch.new_string)

\* The loop over sorted_patches from patch k on: validate, then apply.  seen
\* records the buffer each patch reached was validated against.
RECURSIVE PatchLoop(_, _, _, _)
PatchLoop(lines, sorted_patches, k, require_exact_match) ==
    IF k > Len(sorted_patches)
    THEN [res |-> OkResult, lines |-> lines, seen |-> <<>>]
    ELSE LET patch == sorted_patches[k]
             checked == PatchValidateRanges(lines, patch.ranges, 1,
                                            patch.old_string,
                                            require_exact_match)
         IN IF checked.result = "error"
            THEN [res |-> checked, lines |-> lines, seen |-> <<lines>>]
            ELSE LET rest == PatchLoop(PatchApply(lines, patch), sorted_patches, k + 1,
                                 require_exact_match)
                 IN [rest EXCEPT !.seen = <<lines>> \o @]

edit_file_contents_v2(exists, content, patches, encoding, require_exact_match) ==
    IF ~exists
    THEN Outcome(create_error_response("File not found", "",
                     "File must exist before applying patches"), content)
    ELSE IF ~Encodable(content, encoding)
    THEN Outcome(create_error_response("Error editing file", "patch",
                     "Please check file permissions and try again"), content)
    ELSE IF \E p \in 1..Len(patches) : AnyOverlap(patches[p].ranges)
    THEN Outcome(create_error_response(
                     "Overlapping ranges within patch detected", "patch",
                     "Ranges within a single patch cannot overlap"), content)
    ELSE IF AnyOverlap(AllRanges(patches))
    THEN Outcome(create_error_response(
                     "Overlapping ranges across patches detected", "patch",
                     "Ranges across different patches cannot overlap"), content)
    ELSE LET done == PatchLoop(LoadLines(content), SortedOps(patches), 1,
                               require_exact_match)
             written == WriteFile(Join(done.lines), encoding)
         IN IF done.res.result = "error" THEN Outcome(done.res, content)
            ELSE IF written.raised
            THEN Outcome(create_error_response("Error editing file", "patch",
                             "Please check file permissions and try again"),
                         written.content)
            ELSE Outcome(OkResult, written.content)

(***************************************************************************)
(* insert_text_file_contents_v2                                            *)
(***************************************************************************)
\* sorted(insertions, key=line_number, reverse=True)
SortedInsertions(insertions) ==
    SortedDescByKeys(insertions,
                     [i \in 1..Len(insertions) |-> insertions[i].line_number])

\* The validation of one insertion against the buffer as it is when the
\* insertion is reached.
InsertValidate(lines, insertion, require_exact_match) ==
    IF insertion.line_number < 1 \/ insertion.line_number > Len(lines)
    THEN create_error_response("Line number is out of range", "", "")
    ELSE IF ~_content_matches(lines[insertion.line_number],
                              insertion.context_line \o <<"LF">>,
                              require_exact_match)
    THEN create_error_response("Content does not match expected context", "",
                               MatchHint(require_exact_match))
    ELSE OkResult

\* The insertion with "before" and "after" both placing the content after
\* the reference line.
InsertApplyAfterOnly(lines, insertion) ==
    LET content_to_insert ==
            IF EndsWithNewline(insertion.content_to_insert)
            THEN insertion.content_to_insert
            ELSE insertion.content_to_insert \o <<"LF">>
        at == insertion.line_number
    IN SubSeq(lines, 1, at) \o <<content_to_insert>>
           \o SubSeq(lines, at + 1, Len(lines))

\* The buffer after lines.insert(...) of one insertion.
InsertApply(lines, insertion) ==
    LET content_to_insert ==
            IF EndsWithNewline(insertion.content_to_insert)
            THEN insertion.content_to_insert
            ELSE insertion.content_to_insert \o <<"LF">>
        at == IF insertion.position = "before" THEN insertion.line_number - 1
              ELSE insertion.line_number
    IN SubSeq(lines, 1, at) \o <<content_to_insert>>
           \o SubSeq(lines, at + 1, Len(lines))

\* The loop over sorted_insertions from insertion k on: validate, then insert.  seen
\* records the buffer each insertion reached was validated against.
RECURSIVE InsertLoop(_, _, _, _)
InsertLoop(lines, sorted_insertions, k, require_exact_match) ==
    IF k > Len(sorted_insertions)
    THEN [res |-> OkResult, lines |-> lines, seen |-> <<>>]
    ELSE LET insertion == sorted_insertions[k]
             checked == InsertValidate(lines, insertion, require_exact_match)
         IN IF checked.result = "error"
            THEN [res |-> checked, lines |-> lines, seen |-> <<lines>>]
            ELSE LET rest == InsertLoop(InsertApply(lines, insertion), sorted_insertions, k + 1,
                                 require_exact_match)
                 IN [rest EXCEPT !.seen = <<lines>> \o @]

insert_text_file_contents_v2(exists, content, insertions, encoding, require_exact_match) ==
    IF ~exists
    THEN Outcome(create_error_response("File not found", "",
                     "File must exist before inserting content"), content)
    ELSE IF ~Encodable(content, encoding)
    THEN Outcome(create_error_response("Exception", "", ""), content)
    ELSE LET done == InsertLoop(LoadLines(content),
                                SortedInsertions(insertions), 1,
                                require_exact_match)
             written == WriteFile(Join(done.lines), encoding)
         IN IF done.res.result = "error" THEN Outcome(done.res, content)
            ELSE IF written.raised
            THEN Outcome(create_error_response("Exception", "", ""),
                         written.content)
            ELSE Outcome(OkResult, written.content)

(***************************************************************************)
(* append_text_file_contents_v2                                            *)
(***************************************************************************)
append_text_file_contents_v2(exists, content, content_to_append, expected_file_ending, encoding, require_exact_match) ==
    IF ~exists
    THEN Outcome(create_error_response("File not found", "",
                     "File must exist before appending content"), content)
    ELSE IF ~Encodable(content, encoding)
    THEN Outcome(create_error_response("Exception", "", ""), content)
    ELSE LET lines == LoadLines(content)
             expected_final_line_content ==
                 IF EndsWithNewline(expected_file_ending)
                 THEN expected_file_ending
                 ELSE expected_file_ending \o <<"LF">>
             to_append == IF EndsWithNewline(content_to_append)
                          THEN content_to_append
                          ELSE content_to_append \o <<"LF">>
             written == AppendFile(content, to_append, encoding)
         IN IF lines # <<>>
               /\ ~_content_matches(lines[Len(lines)],
                                    expected_final_line_content,
                                    require_exact_match)
            THEN Outcome(create_error_response(
                             "Final line does not match expected content", "",
                             MatchHint(require_exact_match)), content)
            ELSE IF written.raised
            THEN Outcome(create_error_response("Exception", "", ""),
                         written.content)
            ELSE Outcome(OkResult, written.content)

(***************************************************************************)
(* The state: one file on disk and the last mutation call made on it.      *)
(***************************************************************************)
VARIABLES
    exists,    \* whether the file exists (os.path.exists)
    content,   \* the characters the file holds
    phase,     \* "idle" before the call, "done" once it has returned
    call,      \* the request of the call
    before,    \* the characters the file held when the call was made
    result     \* the Result the call returned

vars == <<exists, content, phase, call, before, result>>

NoCall ==
    [kind |-> "none", ops |-> <<>>, encoding |-> "utf-8",
     require_exact_match |-> FALSE]

NoResult == [result |-> "none", reason |-> "", suggestion |-> "", hint |-> ""]

(***************************************************************************)
(* The files a behaviour may start from.                                   *)
(***************************************************************************)
\* The text of the lines of a file.
Bodies == {<<"a">>, <<"b">>}

\* The documents of exactly n lines, each ended by "\n".
DocsOf(n) == {Join([i \in 1..n |-> body[i] \o <<"LF">>]) :
                 body \in [1..n -> Bodies]}

PlainFiles == UNION {DocsOf(n) : n \in 0..MaxLines}

\* Files of one or two lines whose last line has no line terminator.
UnterminatedFiles ==
    {SubSeq(f, 1, Len(f) - 1) : f \in DocsOf(1) \cup DocsOf(2)}

\* Files with trailing whitespace, four lines, "\r\n" terminators, a form
\* feed inside a line, and a letter outside ASCII.
SpecialFiles ==
    { <<"a", "SP", "LF">>,
      <<"a", "SP", "LF", "b", "LF">>,
      <<"a", "LF", "a", "SP", "LF", "a", "LF">>,
      <<"a", "LF", "b", "LF", "a", "LF", "a", "LF">>,
      <<"a", "LF", "b", "LF", "a", "LF", "b", "SP", "LF">>,
      <<"a", "CR", "LF", "b", "CR", "LF">>,
      <<"a", "FF", "b", "LF">>,
      <<"NA", "LF", "a", "LF">> }

Files == PlainFiles \cup UnterminatedFiles \cup SpecialFiles

Init ==
    /\ exists \in BOOLEAN
    /\ content \in Files
    /\ (~exists => content = <<>>)
    /\ phase = "idle"
    /\ call = NoCall
    /\ before = content
    /\ result = NoResult

(***************************************************************************)
(* The requests.                                                           *)
(***************************************************************************)
\* Line numbers a request may name for a file of n lines: one below the
\* first line to one beyond the last.
LineNumbers(n) == 0..(n + 1)

\* Every range over those line numbers, with a given end or an open one.
RangesOver(n) ==
    {Range(s, e) : s \in LineNumbers(n),
                   e \in {None} \cup {<<x>> : x \in LineNumbers(n)}}

\* The ranges of one line, and the open-ended ranges, inside the file.
LineRanges(n) ==
    {Range(s, <<s>>) : s \in 1..n} \cup {Range(s, None) : s \in 1..n}

\* Expected strings of a request with one operation.
ExpectedStrings ==
    { <<>>, <<"a">>, <<"b">>, <<"a", "LF">>, <<"b", "LF">>, <<"a", "SP">>,
      <<"SP", "a">>, <<"a", "LF", "b", "LF">>, <<"a", "LF", "b">> }

\* Replacement and inserted strings.
NewStrings ==
    { <<>>, <<"b">>, <<"a", "LF">>, <<"a", "LF", "a">>, <<"NA">> }

\* Expected strings and new strings of a request with several operations.
BatchExpected == {<<"a">>, <<"b">>}
BatchNew == {<<"a">>, <<"a", "LF", "a">>}

\* One or two ranges.
RangeLists(ranges) ==
    {<<r>> : r \in ranges} \cup {<<r1, r2>> : r1 \in ranges, r2 \in ranges}

DeleteOp(expected_content, ranges) ==
    [expected_content |-> expected_content, ranges |-> ranges]

Request(ops, encoding, require_exact_match) ==
    [ops |-> ops, encoding |-> encoding,
     require_exact_match |-> require_exact_match]

\* Deletions: one operation on any one range in either matching mode; one
\* operation on a file read as ASCII; a batch of up to two operations of up
\* to three ranges in all over the lines of the file.
DeleteRequests(n) ==
    {Request(<<DeleteOp(x, <<r>>)>>, "utf-8", exact) :
         x \in ExpectedStrings, r \in RangesOver(n), exact \in BOOLEAN}
    \cup
    {Request(<<DeleteOp(x, <<r>>)>>, "ascii", FALSE) :
         x \in BatchExpected, r \in LineRanges(n)}
    \cup
    {Request(<<DeleteOp(x, rs)>>, "utf-8", FALSE) :
         x \in BatchExpected, rs \in RangeLists(LineRanges(n))}
    \cup
    {Request(<<DeleteOp(x1, rs1), DeleteOp(x2, <<r2>>)>>, "utf-8", FALSE) :
         x1 \in BatchExpected, rs1 \in RangeLists(LineRanges(n)),
         x2 \in BatchExpected, r2 \in LineRanges(n)}

PatchOp(old_string, new_string, ranges) ==
    [old_string |-> old_string, new_string |-> new_string, ranges |-> ranges]

\* Patches: the same shapes as the deletions, with a new string each.
PatchRequests(n) ==
    {Request(<<PatchOp(x, y, <<r>>)>>, "utf-8", exact) :
         x \in ExpectedStrings, y \in NewStrings, r \in RangesOver(n),
         exact \in BOOLEAN}
    \cup
    {Request(<<PatchOp(x, y, <<r>>)>>, "ascii", FALSE) :
         x \in BatchExpected, y \in NewStrings, r \in LineRanges(n)}
    \cup
    {Request(<<PatchOp(x, y, rs)>>, "utf-8", FALSE) :
         x \in BatchExpected, y \in BatchNew, rs \in RangeLists(LineRanges(n))}
    \cup
    {Request(<<PatchOp(x1, y1, rs1), PatchOp(x2, y2, <<r2>>)>>, "utf-8",
             FALSE) :
         x1 \in BatchExpected, y1 \in BatchNew,
         rs1 \in RangeLists(LineRanges(n)),
         x2 \in BatchExpected, y2 \in BatchNew, r2 \in LineRanges(n)}

InsertOp(content_to_insert, position, context_line, line_number) ==
    [content_to_insert |-> content_to_insert, position |-> position,
     context_line |-> context_line, line_number |-> line_number]

Positions == {"before", "after"}

\* Insertions: one insertion at any line number in either matching mode; one
\* insertion into a file read and written as ASCII; two insertions at lines
\* of the file.
InsertRequests(n) ==
    {Request(<<InsertOp(y, pos, x, ln)>>, "utf-8", exact) :
         y \in NewStrings, pos \in Positions, x \in ExpectedStrings,
         ln \in LineNumbers(n), exact \in BOOLEAN}
    \cup
    {Request(<<InsertOp(y, pos, x, ln)>>, "ascii", FALSE) :
         y \in NewStrings, pos \in Positions, x \in BatchExpected,
         ln \in 1..n}
    \cup
    {Request(<<InsertOp(y1, pos1, x1, ln1), InsertOp(y2, pos2, x2, ln2)>>,
             "utf-8", FALSE) :
         y1 \in BatchExpected, pos1 \in Positions, x1 \in BatchExpected,
         ln1 \in 1..n,
         y2 \in BatchExpected, pos2 \in Positions, x2 \in BatchExpected,
         ln2 \in 1..n}

AppendOp(content_to_append, expected_file_ending) ==
    [content_to_append |-> content_to_append,
     expected_file_ending |-> expected_file_ending]

AppendRequests ==
    {Request(<<AppendOp(y, x)>>, enc, exact) :
         y \in NewStrings, x \in ExpectedStrings, enc \in Encodings,
         exact \in BOOLEAN}

\* The number of lines the mutation calls count in the file.
LineCount(text) == Len(LoadLines(text))

(***************************************************************************)
(* The calls.  Each is the whole engine method, from the existence check   *)
(* to the Result it returns.                                               *)
(***************************************************************************)
\* The state after a call of the given kind with request req returned out.
Returned(kind, req, out) ==
    /\ call' = [kind |-> kind, ops |-> req.ops, encoding |-> req.encoding,
                require_exact_match |-> req.require_exact_match]
    /\ result' = out.res
    /\ content' = out.content
    /\ before' = content
    /\ phase' = "done"
    /\ UNCHANGED exists

PatchCall ==
    /\ phase = "idle"
    /\ \E req \in PatchRequests(LineCount(content)) :
          Returned("patch", req,
                   edit_file_contents_v2(exists, content, req.ops,
                       req.encoding, req.require_exact_match))

DeleteCall ==
    /\ phase = "idle"
    /\ \E req \in DeleteRequests(LineCount(content)) :
          Returned("delete", req,
                   delete_text_file_contents_v2(exists, content, req.ops,
                       req.encoding, req.require_exact_match))

InsertCall ==
    /\ phase = "idle"
    /\ \E req \in InsertRequests(LineCount(content)) :
          Returned("insert", req,
                   insert_text_file_contents_v2(exists, content, req.ops,
                       req.encoding, req.require_exact_match))

AppendCall ==
    /\ phase = "idle"
    /\ \E req \in AppendRequests :
          Returned("append", req,
                   append_text_file_contents_v2(exists, content,
                       req.ops[1].content_to_append,
                       req.ops[1].expected_file_ending,
                       req.encoding, req.require_exact_match))

Next == PatchCall \/ DeleteCall \/ InsertCall \/ AppendCall

Spec == Init /\ [][Next]_vars

(***************************************************************************)
(* The content matcher on its own: every pair of strings of up to          *)
(* MaxStrLen characters, in both modes.                                    *)
(***************************************************************************)
MatchChars == {"a", "SP", "LF", "CR"}

MatchStrings == UNION {[1..k -> MatchChars] : k \in 0..MaxStrLen}

InitMatch ==
    /\ exists = TRUE
    /\ content \in MatchStrings
    /\ phase = "idle"
    /\ call = NoCall
    /\ before = content
    /\ result = NoResult

\* _content_matches(actual, expected, require_exact_match) with the file
\* content as actual.
MatchCall ==
    /\ phase = "idle"
    /\ \E expected \in MatchStrings, exact \in BOOLEAN :
          /\ call' = [kind |-> "match", ops |-> <<expected>>,
                      encoding |-> "utf-8", require_exact_match |-> exact]
          /\ result' = [NoResult EXCEPT !.result =
                           IF _content_matches(content, expected, exact)
                           THEN "match" ELSE "mismatch"]
    /\ phase' = "done"
    /\ UNCHANGED <<exists, content, before>>

NextMatch == MatchCall

SpecMatch == InitMatch /\ [][NextMatch]_vars

(***************************************************************************)
(* Vocabulary of the properties.                                           *)
(***************************************************************************)
\* A call of the given kind has returned.
Done(kind) == phase = "done" /\ call.kind = kind

\* The positions of s that end a line boundary ("\r\n" is one boundary,
\* ending at its "\n").
BoundaryEnds(s) ==
    {i \in 1..Len(s) :
        /\ s[i] \in LineBreaks
        /\ ~(s[i] = "CR" /\ i < Len(s) /\ s[i + 1] = "LF")}

\* The number of lines of s: one per boundary, and one more for text after
\* the last boundary.
NumLines(s) ==
    Cardinality(BoundaryEnds(s))
        + (IF Len(s) > 0 /\ Len(s) \notin BoundaryEnds(s) THEN 1 ELSE 0)

\* The first position of line k of s.
LineFrom(s, k) ==
    IF k = 1 THEN 1
    ELSE 1 + CHOOSE i \in BoundaryEnds(s) :
                 Cardinality({j \in BoundaryEnds(s) : j <= i}) = k - 1

\* The last position of line k of s, its terminator included.
LineTo(s, k) ==
    IF k <= Cardinality(BoundaryEnds(s))
    THEN CHOOSE i \in BoundaryEnds(s) :
             Cardinality({j \in BoundaryEnds(s) : j <= i}) = k
    ELSE Len(s)

\* Line k of s with its terminator.
LineWithEnd(s, k) == SubSeq(s, LineFrom(s, k), LineTo(s, k))

\* A line without trailing whitespace: its prefix up to the last character
\* that is not whitespace.
TrimRight(l) ==
    LET keep == {i \in 1..Len(l) : l[i] \notin Whitespace}
    IN IF keep = {} THEN <<>>
       ELSE SubSeq(l, 1, CHOOSE m \in keep : \A i \in keep : i <= m)

\* s without the character at position p.
Without(s, p) == SubSeq(s, 1, p - 1) \o SubSeq(s, p + 1, Len(s))

\* The space at position p of s is leading or interior: text that is not
\* whitespace follows it on its line.
SpaceBeforeText(s, p) ==
    /\ s[p] = "SP"
    /\ \E q \in (p + 1)..Len(s) :
          /\ s[q] \notin Whitespace
          /\ \A j \in p..q : s[j] \notin LineBreaks

MutationKinds == {"patch", "delete", "insert", "append"}

\* The call has returned and was one of the four mutation calls.
Returned4 == phase = "done" /\ call.kind \in MutationKinds

\* The call read the file: it existed and could be decoded.
FileRead == exists /\ Encodable(before, call.encoding)

\* The document as the call loaded it, and its number of lines.
Loaded == LoadLines(before)
Total == Len(Loaded)

\* The last line of a range in a document of total lines: an open end is
\* the last line.
EndResolved(range, total) ==
    IF range.end = None THEN total ELSE range.end[1]

\* 1 <= start <= (end ?? total_lines) <= total_lines
InBounds(range, total) ==
    /\ 1 <= range.start
    /\ range.start <= EndResolved(range, total)
    /\ EndResolved(range, total) <= total

\* The line numbers a range spans in a document of total lines.
Covered(range, total) ==
    {i \in 1..total : range.start <= i /\ i <= EndResolved(range, total)}

\* The lines of a document at the given line numbers, in order.
RECURSIVE PickFrom(_, _, _)
PickFrom(lines, numbers, i) ==
    IF i > Len(lines) THEN <<>>
    ELSE (IF i \in numbers THEN <<lines[i]>> ELSE <<>>)
             \o PickFrom(lines, numbers, i + 1)

\* The content a document holds at a range.
SpanOf(lines, range) == Join(PickFrom(lines, Covered(range, Len(lines)), 1))

\* The string an operation of a patch or delete call expects at its ranges.
ExpectedOf(op) ==
    IF call.kind = "patch" THEN op.old_string ELSE op.expected_content

\* The (operation, range) positions of the request.
RangeIds == {<<k, i>> \in (1..Len(call.ops)) \X (1..2) :
                i <= Len(call.ops[k].ranges)}

RangeAt(id) == call.ops[id[1]].ranges[id[2]]

\* No line of the loaded document is spanned by two ranges of the request.
Disjoint ==
    \A x \in RangeIds, y \in RangeIds :
        x # y => Covered(RangeAt(x), Total) \cap Covered(RangeAt(y), Total) = {}

\* The loop of the patch or delete call over its sorted operations, run on
\* the document as loaded.
LoopRun ==
    IF call.kind = "patch"
    THEN PatchLoop(Loaded, SortedOps(call.ops), 1, call.require_exact_match)
    ELSE DeleteLoop(Loaded, SortedOps(call.ops), 1, call.require_exact_match)

(***************************************************************************)
(* C1.  Every patch, delete, insert and append call that returns an error  *)
(* Result leaves the content of the file as it was before the call.        *)
(***************************************************************************)
ErrorLeavesFileUnchanged ==
    (Returned4 /\ result.result = "error") => content = before

(***************************************************************************)
(* C2.  A mutation call returns ok only if, for every operation, the       *)
(* content the loaded document holds at the operation's target lines       *)
(* matches the operation's expected string in the selected matching mode.  *)
(***************************************************************************)
OkOnlyIfLoadedContentMatches ==
    (Returned4 /\ result.result = "ok") =>
        CASE call.kind \in {"patch", "delete"} ->
                 \A id \in RangeIds :
                     _content_matches(SpanOf(Loaded, RangeAt(id)),
                                      ExpectedOf(call.ops[id[1]]),
                                      call.require_exact_match)
          [] call.kind = "insert" ->
                 \A k \in 1..Len(call.ops) :
                     /\ call.ops[k].line_number \in 1..Total
                     /\ _content_matches(Loaded[call.ops[k].line_number],
                                         call.ops[k].context_line \o <<"LF">>,
                                         call.require_exact_match)
          [] call.kind = "append" ->
                 \/ Total = 0
                 \/ _content_matches(
                        Loaded[Total],
                        IF EndsWithNewline(call.ops[1].expected_file_ending)
                        THEN call.ops[1].expected_file_ending
                        ELSE call.ops[1].expected_file_ending \o <<"LF">>,
                        call.require_exact_match)

(***************************************************************************)
(* C3.  In a patch or delete batch whose ranges are within bounds and span *)
(* no line twice, each operation is validated against a buffer that holds, *)
(* at each of the operation's ranges, the content the loaded document      *)
(* holds there.                                                            *)
(***************************************************************************)
RangesKeepLoadedContent ==
    (/\ phase = "done"
     /\ call.kind \in {"patch", "delete"}
     /\ FileRead
     /\ Disjoint
     /\ \A id \in RangeIds : InBounds(RangeAt(id), Total))
    => \A k \in 1..Len(LoopRun.seen) :
          LET op == SortedOps(call.ops)[k]
          IN \A i \in 1..Len(op.ranges) :
                 SpanOf(LoopRun.seen[k], op.ranges[i]) =
                 SpanOf(Loaded, op.ranges[i])

(***************************************************************************)
(* C4.  A patch or delete batch in which two ranges overlap is rejected    *)
(* with an error Result and the file is unchanged; once the file has been  *)
(* read, the reason names an overlap within one operation when two ranges  *)
(* of one operation overlap, and an overlap across operations when only    *)
(* ranges of different operations overlap.                                 *)
(***************************************************************************)
\* end_eff = end if end is not null else start
EndEff(range) == IF range.end = None THEN range.start ELSE range.end[1]

\* start1 <= end2_eff AND end1_eff >= start2
Overlaps(a, b) == a.start <= EndEff(b) /\ EndEff(a) >= b.start

OverlapWithin ==
    \E x \in RangeIds, y \in RangeIds :
        x # y /\ x[1] = y[1] /\ Overlaps(RangeAt(x), RangeAt(y))

OverlapAcross ==
    \E x \in RangeIds, y \in RangeIds :
        x[1] # y[1] /\ Overlaps(RangeAt(x), RangeAt(y))

WithinReason ==
    IF call.kind = "patch" THEN "Overlapping ranges within patch detected"
    ELSE "Overlapping ranges within deletion detected"

AcrossReason ==
    IF call.kind = "patch" THEN "Overlapping ranges across patches detected"
    ELSE "Overlapping ranges across deletions detected"

Terminated(text) ==
    IF Len(text) > 0 /\ text[Len(text)] = "LF" THEN text
    ELSE text \o <<"LF">>

\* The text expected from line i of the loaded document on.
RECURSIVE PatchedFrom(_)
PatchedFrom(i) ==
    IF i > Total THEN <<>>
    ELSE IF \E id \in RangeIds : RangeAt(id).start = i
    THEN LET id == CHOOSE x \in RangeIds : RangeAt(x).start = i
         IN Terminated(call.ops[id[1]].new_string)
                \o PatchedFrom(EndResolved(RangeAt(id), Total) + 1)
    ELSE Loaded[i] \o PatchedFrom(i + 1)

PatchReplacesTargetedRanges ==
    (Done("patch") /\ result.result = "ok" /\ Disjoint)
        => content = PatchedFrom(1)

(***************************************************************************)
(* C6.  A successful delete batch (ranges spanning no line twice) leaves   *)
(* exactly the loaded document without the lines spanned by the ranges of  *)
(* its operations.                                                         *)
(***************************************************************************)
DeletedLines == UNION {Covered(RangeAt(id), Total) : id \in RangeIds}

DeleteRemovesTargetedRanges ==
    (Done("delete") /\ result.result = "ok" /\ Disjoint)
        => content = Join(PickFrom(Loaded, (1..Total) \ DeletedLines, 1))

(***************************************************************************)
(* C7.  An insert batch (on a file read and written as UTF-8, empty or     *)
(* ending with a newline) succeeds iff every line_number is within         *)
(* [1, total_lines] of the loaded document and                             *)
(* the loaded line with that number matches context_line; on success the   *)
(* lines of the file are the loaded lines, each preceded by the content    *)
(* inserted before it and followed by the content inserted after it.       *)
(***************************************************************************)
\* The insertions of ops, in order, that name line i and the position.
RECURSIVE InsertedAt(_, _, _)
InsertedAt(ops, i, position) ==
    IF ops = <<>> THEN <<>>
    ELSE (IF Head(ops).line_number = i /\ Head(ops).position = position
          THEN splitlines(Terminated(Head(ops).content_to_insert), TRUE)
          ELSE <<>>)
             \o InsertedAt(Tail(ops), i, position)

\* The lines expected from line i of the loaded document on.
RECURSIVE InsertedFrom(_, _)
InsertedFrom(ops, i) ==
    IF i > Total THEN <<>>
    ELSE InsertedAt(ops, i, "before") \o <<Loaded[i]>>
             \o InsertedAt(ops, i, "after") \o InsertedFrom(ops, i + 1)

\* ops in the opposite order.
Reversed(ops) == [k \in 1..Len(ops) |-> ops[Len(ops) + 1 - k]]

InsertionsValid ==
    \A k \in 1..Len(call.ops) :
        /\ call.ops[k].line_number \in 1..Total
        /\ _content_matches(Loaded[call.ops[k].line_number],
                            call.ops[k].context_line \o <<"LF">>,
                            call.require_exact_match)

InsertSucceedsIffValid ==
    (Done("insert") /\ exists /\ call.encoding = "utf-8"
        /\ (before = <<>> \/ EndsWithNewline(before)))
    => /\ (result.result = "ok") <=> InsertionsValid
       /\ result.result = "ok" =>
              \/ LoadLines(content) = InsertedFrom(call.ops, 1)
              \/ LoadLines(content) = InsertedFrom(Reversed(call.ops), 1)

(***************************************************************************)
(* C8.  An append to a non-empty document succeeds iff the last line       *)
(* matches expected_file_ending, and to an empty document always; on       *)
(* success the lines of the file are the lines it had, followed by the     *)
(* lines of content_to_append.  Stated for calls that read the file and    *)
(* encode the appended text without failure (AppendAddsLinesAtEnd).        *)
(* As amended (AppendConcatenates): on success the file is its previous    *)
(* content followed by content_to_append, ended by a newline when it has   *)
(* none; the lines it had stay as they were, followed by the lines of      *)
(* content_to_append, when the previous content is empty or ends with a    *)
(* newline.                                                                *)
(***************************************************************************)
\* The call met no decoding or encoding failure.
AppendNoCodecFailure ==
    /\ FileRead
    /\ Encodable(call.ops[1].content_to_append, call.encoding)

EndingMatches ==
    \/ Total = 0
    \/ _content_matches(Loaded[Total],
                        Terminated(call.ops[1].expected_file_ending),
                        call.require_exact_match)

RangeErrors ==
    {"Invalid start line: out of range", "Invalid end line: out of range",
     "Start line is out of range", "End line is out of range"}

RangeValidationIffInBounds ==
    (/\ phase = "done"
     /\ call.kind \in {"patch", "delete"}
     /\ FileRead
     /\ ~OverlapWithin /\ ~OverlapAcross /\ Disjoint
     /\ \A id \in RangeIds :
            _content_matches(SpanOf(Loaded, RangeAt(id)),
                             ExpectedOf(call.ops[id[1]]),
                             call.require_exact_match))
    => (result.reason \notin RangeErrors
            <=> \A id \in RangeIds : InBounds(RangeAt(id), Total))

TrimLeft(l) ==
    LET keep == {i \in 1..Len(l) : l[i] \notin Whitespace}
    IN IF keep = {} THEN <<>>
       ELSE SubSeq(l, CHOOSE m \in keep : \A i \in keep : m <= i, Len(l))

\* Two strings with the same number of lines, equal line by line once the
\* whitespace at both ends of each line is removed.
SameUpToOuterWhitespace(s, t) ==
    /\ NumLines(s) = NumLines(t)
    /\ \A k \in 1..NumLines(s) :
           TrimLeft(TrimRight(LineWithEnd(s, k)))
               = TrimLeft(TrimRight(LineWithEnd(t, k)))

\* The call has one operation on lines of the loaded document.
OneTargetInFile ==
    /\ Len(call.ops) = 1
    /\ CASE call.kind = "delete" ->
                /\ Len(call.ops[1].ranges) = 1
                /\ InBounds(call.ops[1].ranges[1], Total)
         [] call.kind = "insert" -> call.ops[1].line_number \in 1..Total
         [] OTHER -> Total > 0

\* The content of the loaded document the operation is checked against.
TargetContent ==
    CASE call.kind = "delete" -> SpanOf(Loaded, call.ops[1].ranges[1])
      [] call.kind = "insert" -> Loaded[call.ops[1].line_number]
      [] OTHER -> Loaded[Total]

\* The string the caller expects there.
TargetExpected ==
    CASE call.kind = "delete" -> call.ops[1].expected_content
      [] call.kind = "insert" -> call.ops[1].context_line
      [] OTHER -> call.ops[1].expected_file_ending

LeadingWhitespaceIgnored ==
    (/\ phase = "done"
     /\ call.kind \in {"delete", "insert", "append"}
     /\ exists
     /\ call.encoding = "utf-8"
     /\ ~call.require_exact_match
     /\ OneTargetInFile
     /\ SameUpToOuterWhitespace(TargetContent, TargetExpected))
    => result.result = "ok"


(***************************************************************************)
(* C12.  With require_exact_match true the content check of a patch or     *)
(* delete passes iff the content at the range and the expected string are  *)
(* the same characters; a rejected string is reported with the hint that   *)
(* an exact whitespace match is required.                                  *)
(***************************************************************************)
\* The call has one operation with one range inside the loaded document.
OneRangeInFile ==
    /\ Len(call.ops) = 1
    /\ Len(call.ops[1].ranges) = 1
    /\ InBounds(call.ops[1].ranges[1], Total)

ContentRejected == result.reason = "Content does not match expected string"

ExactMatchIsIdentity ==
    (/\ phase = "done"
     /\ call.kind \in {"patch", "delete"}
     /\ FileRead
     /\ call.require_exact_match
     /\ OneRangeInFile)
    => /\ ContentRejected
              <=> SpanOf(Loaded, call.ops[1].ranges[1])
                      # ExpectedOf(call.ops[1])
       /\ ContentRejected
              => /\ result.hint = "exact whitespace match required"
                 /\ content = before

\* A delete in exact mode rejected for trailing whitespace that flexible
\* mode would have ignored.
ExactRejectsWhitespaceWitness ==
    /\ Done("delete")
    /\ FileRead
    /\ call.require_exact_match
    /\ OneRangeInFile
    /\ ContentRejected
    /\ result.hint = "exact whitespace match required"
    /\ SpanOf(Loaded, call.ops[1].ranges[1]) # call.ops[1].expected_content
    /\ TrimRight(SpanOf(Loaded, call.ops[1].ranges[1]))
           = TrimRight(call.ops[1].expected_content)
    /\ NumLines(call.ops[1].expected_content) = 1
    /\ Covered(call.ops[1].ranges[1], Total) = {1}


(***************************************************************************)
(* C13.  Idempotence: a patch of one in-bounds range whose old_string      *)
(* equals its new_string and matches the content at the range succeeds and *)
(* leaves the file byte-identical (PatchSameStringIsNoOp).                 *)
(* As amended (PatchSameStringKeepsFile): it succeeds, and it leaves the   *)
(* file byte-identical when old_string, ended by a newline if it has none, *)
(* is character for character the content at the range and the file's line *)
(* terminators are all newlines.                                           *)
(***************************************************************************)
\* A patch of one in-bounds range with old_string = new_string matching the
\* content at the range in the call's matching mode.
SameStringPatch ==
    /\ Done("patch")
    /\ FileRead
    /\ OneRangeInFile
    /\ call.ops[1].old_string = call.ops[1].new_string
    /\ _content_matches(SpanOf(Loaded, call.ops[1].ranges[1]),
                        call.ops[1].old_string, call.require_exact_match)

PatchSameStringIsNoOp ==
    SameStringPatch => (result.result = "ok" /\ content = before)

PatchSameStringKeepsFile ==
    SameStringPatch
    => /\ result.result = "ok"
       /\ (/\ Terminated(call.ops[1].old_string)
                 = SpanOf(Loaded, call.ops[1].ranges[1])
           /\ UniversalNewlines(before) = before)
          => content = before

\* Such a patch on the first line of a longer file, written without its
\* terminator in old_string and new_string.
SameStringPatchWitness ==
    /\ SameStringPatch
    /\ result.result = "ok"
    /\ Total >= 2
    /\ Covered(call.ops[1].ranges[1], Total) = {1}
    /\ ~EndsWithNewline(call.ops[1].old_string)
    /\ Terminated(call.ops[1].old_string) = Loaded[1]
    /\ content = before


(***************************************************************************)
(* A delete of one range followed by an insert of the deleted content at   *)
(* the place it was deleted from.  Here `before` keeps the content of the  *)
(* file before the delete, through both calls.                             *)
(***************************************************************************)
\* A line without its terminator, as a caller writes it in context_line.
ContextOf(line) ==
    LET parts == splitlines(line, FALSE)
    IN IF parts = <<>> THEN <<>> ELSE parts[1]

\* The ranges with a given or an open end inside a file of n lines.
InBoundsRanges(n) == {r \in RangesOver(n) : InBounds(r, n)}

InitRoundTrip ==
    /\ exists = TRUE
    /\ content \in Files
    /\ phase = "idle"
    /\ call = NoCall
    /\ before = content
    /\ result = NoResult

\* delete_text_file_contents_v2 of one in-bounds range, expecting the
\* content the file holds there.
RoundTripDelete ==
    /\ phase = "idle"
    /\ \E r \in InBoundsRanges(LineCount(content)), exact \in BOOLEAN :
          LET deletion == DeleteOp(SpanOf(LoadLines(content), r), <<r>>)
              out == delete_text_file_contents_v2(exists, content,
                         <<deletion>>, "utf-8", exact)
          IN /\ call' = [kind |-> "delete", ops |-> <<deletion>>,
                         encoding |-> "utf-8", require_exact_match |-> exact]
             /\ result' = out.res
             /\ content' = out.content
             /\ before' = content
             /\ phase' = "deleted"
             /\ UNCHANGED exists

\* insert_text_file_contents_v2 of the deleted content: before the line now
\* at the start of the deleted range, or after the line preceding it.
RoundTripInsert ==
    /\ phase = "deleted"
    /\ result.result = "ok"
    /\ \E position \in Positions, exact \in BOOLEAN :
          LET start == call.ops[1].ranges[1].start
              line_number == IF position = "before" THEN start ELSE start - 1
              lines == LoadLines(content)
          IN /\ line_number \in 1..Len(lines)
             /\ LET insertion == InsertOp(call.ops[1].expected_content,
                                     position, ContextOf(lines[line_number]),
                                     line_number)
                    out == insert_text_file_contents_v2(exists, content,
                               <<insertion>>, "utf-8", exact)
                IN /\ call' = [kind |-> "insert", ops |-> <<insertion>>,
                               encoding |-> "utf-8",
                               require_exact_match |-> exact]
                   /\ result' = out.res
                   /\ content' = out.content
                   /\ phase' = "restored"
                   /\ UNCHANGED <<exists, before>>

NextRoundTrip == RoundTripDelete \/ RoundTripInsert

SpecRoundTrip == InitRoundTrip /\ [][NextRoundTrip]_vars

(***************************************************************************)
(* C14.  Round trip: a successful delete of an in-bounds range followed by *)
(* a successful insert of the deleted content at the same position         *)
(* restores the file content exactly (RoundTripRestoresFile).              *)
(* As amended (RoundTripRestoresLines): it restores the file exactly when  *)
(* every line of the file ends with a newline and holds no other line      *)
(* boundary; a file with "\r\n" terminators or an unterminated last line   *)
(* is restored up to its terminators ("\r\n" becomes "\n", the last line   *)
(* may gain a "\n"); in flexible mode the insert succeeds whenever the     *)
(* delete left a line to refer to.                                         *)
(***************************************************************************)
Restored == phase = "restored" /\ result.result = "ok"

RoundTripRestoresFile == Restored => content = before

\* Every line boundary of s is a newline that ends a line of s.
NewlineTerminated(s) ==
    /\ \A i \in 1..Len(s) : s[i] \in LineBreaks => s[i] = "LF"
    /\ s # <<>> => s[Len(s)] = "LF"

RoundTripRestoresLines ==
    /\ Restored =>
          /\ NewlineTerminated(before) => content = before
          /\ (\A i \in 1..Len(before) : before[i] # "FF")
                 => Terminated(content)
                        = Terminated(UniversalNewlines(before))
    /\ (phase = "restored" /\ ~call.require_exact_match)
          => result.result = "ok"

\* A round trip that took the middle line out of a three-line file and put
\* it back.
RoundTripWitness ==
    /\ Restored
    /\ Len(LoadLines(before)) = 3
    /\ call.ops[1].line_number = 2
    /\ call.ops[1].content_to_insert = LoadLines(before)[2]
    /\ NewlineTerminated(before)
    /\ content = before


(***************************************************************************)
(* The overlap test on its own: _ranges_overlap applied to two ranges,     *)
(* in both orders.                                                         *)
(***************************************************************************)
InitOverlap ==
    /\ exists = TRUE
    /\ content = <<>>
    /\ phase = "idle"
    /\ call = NoCall
    /\ before = content
    /\ result = NoResult

\* _ranges_overlap(range1, range2) and _ranges_overlap(range2, range1);
\* result.result holds the first answer, result.reason the second.
OverlapCall ==
    /\ phase = "idle"
    /\ \E range1 \in RangesOver(MaxLines), range2 \in RangesOver(MaxLines) :
          /\ call' = [kind |-> "overlap", ops |-> <<range1, range2>>,
                      encoding |-> "utf-8", require_exact_match |-> FALSE]
          /\ result' = [NoResult EXCEPT
                           !.result = IF _ranges_overlap(range1, range2)
                                      THEN "overlap" ELSE "disjoint",
                           !.reason = IF _ranges_overlap(range2, range1)
                                      THEN "overlap" ELSE "disjoint"]
    /\ phase' = "done"
    /\ UNCHANGED <<exists, content, before>>

NextOverlap == OverlapCall

SpecOverlap == InitOverlap /\ [][NextOverlap]_vars

(***************************************************************************)
(* C15.  The overlap predicate is symmetric, for all ranges, open-ended    *)
(* ranges and ranges with end < start included, and it is the predicate    *)
(* start1 <= end2_eff and end1_eff >= start2 with end_eff = end when end   *)
(* is given and start otherwise.                                           *)
(***************************************************************************)
\* The symmetry alone.
OverlapIsSymmetric == Done("overlap") => result.result = result.reason

OverlapSymmetricAsDefined ==
    /\ OverlapIsSymmetric
    /\ Done("overlap")
           => ((result.result = "overlap")
                   <=> Overlaps(call.ops[1], call.ops[2]))


(***************************************************************************)
(* C16.  An error Result carries a suggestion iff the call is a patch on a *)
(* file that does not exist: that call is rejected with a file-not-found   *)
(* reason and a suggestion, and no other error Result of any of the four   *)
(* calls carries one.                                                      *)
(***************************************************************************)
SuggestionOnlyForMissingFileInPatch ==
    (Returned4 /\ result.result = "error")
    => /\ (result.suggestion # "") <=> (call.kind = "patch" /\ ~exists)
       /\ (call.kind = "patch" /\ ~exists) => result.reason = "File not found"


(***************************************************************************)
(* The four calls with their file_path argument: each method begins with   *)
(* _validate_file_path(file_path), outside its try block.                  *)
(***************************************************************************)
\* A path is a sequence of the characters ".", "/" and letters.
PathChars == {".", "/", "f"}

Paths == UNION {[1..k -> PathChars] : k \in 1..MaxStrLen}

\* The validation that lets every path through.
ValidateNothing(file_path) == "passed"

\* if ".." in path_str: raise ValueError("Path traversal not allowed")
_validate_file_path(file_path) ==
    IF \E i \in 1..(Len(file_path) - 1) :
           file_path[i] = "." /\ file_path[i + 1] = "."
    THEN "ValueError" ELSE "passed"

\* The exception leaves the method: no Result is returned.
Raised(message) ==
    [result |-> "raised", reason |-> message, suggestion |-> "", hint |-> ""]

\* Requests of one operation on one range of the first lines, in either
\* encoding, writing text that ASCII can or cannot encode.
PathRanges == RangesOver(1)
PathNew == {<<"b">>, <<"NA">>}

PathRequests(kind) ==
    CASE kind = "patch" ->
           {Request(<<PatchOp(x, y, <<r>>)>>, enc, FALSE) :
                x \in BatchExpected, y \in PathNew, r \in PathRanges,
                enc \in Encodings}
      [] kind = "delete" ->
           {Request(<<DeleteOp(x, <<r>>)>>, enc, FALSE) :
                x \in BatchExpected, r \in PathRanges, enc \in Encodings}
      [] kind = "insert" ->
           {Request(<<InsertOp(y, pos, x, ln)>>, enc, FALSE) :
                y \in PathNew, pos \in Positions, x \in BatchExpected,
                ln \in 1..2, enc \in Encodings}
      [] OTHER ->
           {Request(<<AppendOp(y, x)>>, enc, FALSE) :
                y \in PathNew, x \in BatchExpected, enc \in Encodings}

\* What the method of the given kind does once the path is validated.
Engine(kind, req) ==
    CASE kind = "patch" ->
           edit_file_contents_v2(exists, content, req.ops, req.encoding,
                                 req.require_exact_match)
      [] kind = "delete" ->
           delete_text_file_contents_v2(exists, content, req.ops,
                                        req.encoding, req.require_exact_match)
      [] kind = "insert" ->
           insert_text_file_contents_v2(exists, content, req.ops,
                                        req.encoding, req.require_exact_match)
      [] OTHER ->
           append_text_file_contents_v2(exists, content,
               req.ops[1].content_to_append, req.ops[1].expected_file_ending,
               req.encoding, req.require_exact_match)

\* One of the four methods called with a path.
PathCall ==
    /\ phase = "idle"
    /\ \E kind \in MutationKinds, file_path \in Paths :
          \E req \in PathRequests(kind) :
             LET out == IF _validate_file_path(file_path) = "ValueError"
                        THEN Outcome(Raised("Path traversal not allowed"),
                                     content)
                        ELSE Engine(kind, req)
             IN /\ call' = [kind |-> kind, ops |-> req.ops,
                            encoding |-> req.encoding,
                            require_exact_match |-> req.require_exact_match,
                            file_path |-> file_path]
                /\ result' = out.res
                /\ content' = out.content
                /\ before' = content
                /\ phase' = "done"
                /\ UNCHANGED exists

\* The files the path may lead to: none, an empty one, one line, a line
\* ASCII cannot decode.
InitPath ==
    /\ exists \in BOOLEAN
    /\ content \in {<<>>, <<"a", "LF">>, <<"a">>, <<"NA", "LF", "a", "LF">>}
    /\ (~exists => content = <<>>)
    /\ phase = "idle"
    /\ call = NoCall
    /\ before = content
    /\ result = NoResult

NextPath == PathCall

SpecPath == InitPath /\ [][NextPath]_vars

(***************************************************************************)
(* C17.  A call of any of the four mutation methods with a path holding    *)
(* ".." raises the path traversal error and leaves the file alone,         *)
(* whatever the file and the request; with any other path the call         *)
(* returns a Result, ok or error, whatever fails.                          *)
(***************************************************************************)
HasDotDot(path) ==
    \E i \in 1..(Len(path) - 1) : path[i] = "." /\ path[i + 1] = "."

PathTraversalRaises ==
    Returned4
    => IF HasDotDot(call.file_path)
       THEN /\ result = Raised("Path traversal not allowed")
            /\ content = before
       ELSE result.result \in {"ok", "error"}

\* An append through the path "../" to a file that exists and would have
\* accepted it.
PathTraversalWitness ==
    /\ Done("append")
    /\ call.file_path = <<".", ".", "/">>
    /\ exists
    /\ before = <<"a", "LF">>
    /\ call.ops[1].expected_file_ending = <<"a">>
    /\ call.encoding = "utf-8"
    /\ result.result = "raised"
    /\ content = before


(***************************************************************************)
(* PatchTextFileContentsHandler.run_tool: a request naming several files,  *)
(* patched one after the other.  In this specification `exists`, `content` *)
(* and `before` hold one entry per file of the request, call.at is the     *)
(* position of the loop in `files`, and result.results the list `results`. *)
(* The paths are absolute and distinct.                                    *)
(***************************************************************************)
\* The files of a request: two.
FileIds == 1..2

FileContents == {<<"a", "LF">>, <<"b", "LF">>}

\* The patches sent for one file: one operation on line 1 or on a line the
\* file lacks, or two overlapping ranges.
FilePatches ==
    {<<PatchOp(x, <<"b">>, <<r>>)>> :
         x \in BatchExpected, r \in {Range(1, <<1>>), Range(2, <<2>>)}}
    \cup {<<PatchOp(<<"a">>, <<"b">>, <<Range(1, <<1>>), Range(1, None)>>)>>}

FileOp(patches, encoding) == [patches |-> patches, encoding |-> encoding]

InitFiles ==
    /\ exists \in [FileIds -> BOOLEAN]
    /\ content \in [FileIds -> FileContents \cup {<<>>}]
    /\ \A f \in FileIds : exists[f] <=> content[f] # <<>>
    /\ phase = "idle"
    /\ call = NoCall
    /\ before = content
    /\ result = NoResult

\* run_tool is called: `results = []`, the loop is at the first file.
FilesCall ==
    /\ phase = "idle"
    /\ \E files \in [FileIds -> {FileOp(ps, "utf-8") : ps \in FilePatches}] :
          call' = [kind |-> "patch_files", ops |-> files,
                   encoding |-> "utf-8", require_exact_match |-> FALSE,
                   at |-> 1]
    /\ result' = [result |-> "running", reason |-> "", suggestion |-> "",
                  hint |-> "", results |-> <<>>]
    /\ phase' = "running"
    /\ UNCHANGED <<exists, content, before>>

\* One iteration of `for file_op in files`: a file that does not exist
\* raises RuntimeError, which leaves run_tool; otherwise the file is
\* patched and its Result appended to results.
FilesStep ==
    /\ phase = "running"
    /\ call.at <= Len(call.ops)
    /\ LET f == call.at
           file_op == call.ops[f]
           out == edit_file_contents_v2(exists[f], content[f],
                      file_op.patches, file_op.encoding, FALSE)
       IN IF ~exists[f]
          THEN /\ result' = [result |-> "raised",
                             reason |-> "File does not exist",
                             suggestion |-> "", hint |-> "",
                             results |-> <<>>]
               /\ phase' = "done"
               /\ UNCHANGED <<content, call>>
          ELSE /\ content' = [content EXCEPT ![f] = out.content]
               /\ result' = [result EXCEPT
                                !.results = Append(@, out.res)]
               /\ call' = [call EXCEPT !.at = f + 1]
               /\ UNCHANGED phase
    /\ UNCHANGED <<exists, before>>

\* The loop is over: return the results.
FilesReturn ==
    /\ phase = "running"
    /\ call.at > Len(call.ops)
    /\ result' = [result EXCEPT !.result = "returned"]
    /\ phase' = "done"
    /\ UNCHANGED <<exists, content, before, call>>

NextFiles == FilesCall \/ FilesStep \/ FilesReturn

SpecFiles == InitFiles /\ [][NextFiles]_vars

(***************************************************************************)
(* C18.  In a patch request on several files every file is processed,      *)
(* whatever happens to the others: the request returns one result per      *)
(* file, the result the patch of that file alone gives (an error for a     *)
(* missing file, a mismatch, an overlap, a range out of bounds), and every *)
(* file holds what its own patch left, committed files included.           *)
(***************************************************************************)
\* What the patch of file f alone returns and leaves.
AloneOutcome(f) ==
    edit_file_contents_v2(exists[f], before[f], call.ops[f].patches,
                          call.ops[f].encoding, FALSE)

FileFailuresAreLocal ==
    (phase = "done" /\ call.kind = "patch_files")
    => /\ result.result = "returned"
       /\ Len(result.results) = Len(call.ops)
       /\ \A f \in FileIds :
              /\ result.results[f] = AloneOutcome(f).res
              /\ content[f] = AloneOutcome(f).content


(***************************************************************************)
(* A mutation call in its steps, with a second writer.  The call reads the *)
(* file (open "r", read, close), works on the list `lines` it built, and   *)
(* opens the file again to write; nothing holds the file in between.       *)
(* `before` is the content the call read; result.on_disk is the content    *)
(* the file held when the call opened it for writing.                      *)
(***************************************************************************)
RaceFiles == {<<"a", "LF">>, <<"b", "LF">>, <<"a", "LF", "b", "LF">>}

RaceKinds == {"patch", "delete", "insert"}

\* The requests of SpecPath that read and write UTF-8.
RaceRequests(kind) == {req \in PathRequests(kind) : req.encoding = "utf-8"}

\* The method of the given kind run on a file holding the given text.
EngineOn(kind, req, text) ==
    CASE kind = "patch" ->
           edit_file_contents_v2(TRUE, text, req.ops, req.encoding,
                                 req.require_exact_match)
      [] kind = "delete" ->
           delete_text_file_contents_v2(TRUE, text, req.ops, req.encoding,
                                        req.require_exact_match)
      [] OTHER ->
           insert_text_file_contents_v2(TRUE, text, req.ops, req.encoding,
                                        req.require_exact_match)

\* The text validated and mutated is the one the call read, as if the file
\* were read again when it is opened for writing.
ReadAgainAtFlush(loaded, on_disk) == on_disk

\* The text validated and mutated is the one the call read
\* (current_file_content), whatever the file holds by now.
current_file_content(loaded, on_disk) == loaded

InitRace ==
    /\ exists = TRUE
    /\ content \in RaceFiles
    /\ phase = "idle"
    /\ call = NoCall
    /\ before = content
    /\ result = NoResult

\* The call checks that the file exists and reads it.
RaceLoad ==
    /\ phase = "idle"
    /\ \E kind \in RaceKinds :
          \E req \in RaceRequests(kind) :
             call' = [kind |-> kind, ops |-> req.ops,
                      encoding |-> req.encoding,
                      require_exact_match |-> req.require_exact_match]
    /\ before' = content
    /\ phase' = "loaded"
    /\ UNCHANGED <<exists, content, result>>

\* Another process rewrites the file while the call holds its lines.
OtherWrite ==
    /\ phase = "loaded"
    /\ content' \in RaceFiles \ {content}
    /\ UNCHANGED <<exists, phase, call, before, result>>

\* The call validates and mutates its lines and, if nothing was rejected,
\* opens the file with "w" and writes them.
RaceFlush ==
    /\ phase = "loaded"
    /\ LET out == EngineOn(call.kind, call,
                           current_file_content(before, content))
       IN /\ result' = [reason |-> out.res.reason,
                        suggestion |-> out.res.suggestion,
                        hint |-> out.res.hint, result |-> out.res.result,
                        on_disk |-> content]
          /\ content' = IF out.res.result = "ok" THEN out.content
                        ELSE content
    /\ phase' = "done"
    /\ UNCHANGED <<exists, call, before>>

NextRace == RaceLoad \/ OtherWrite \/ RaceFlush

SpecRace == InitRace /\ [][NextRace]_vars

(***************************************************************************)
(* C19.  Mutation calls on one file are not mutually exclusive: a second   *)
(* writer can modify the file between the call's load and its flush; the   *)
(* call's checks then pass against what it loaded, it returns ok, and what *)
(* it writes is its stale load with its operations applied, so the second  *)
(* writer's modification is lost.                                          *)
(***************************************************************************)
StaleLoadIsFlushed ==
    phase = "done"
    => LET stale == EngineOn(call.kind, call, before)
       IN /\ result.result = stale.res.result
          /\ result.result = "ok" => content = stale.content
          /\ result.result = "error" => content = result.on_disk

\* The second writer replaced "a\n" by "a\nb\n" after the call loaded it;
\* the call matched "a" on line 1 of its load, returned ok and wrote
\* "b\n": the line the writer added is gone.
LostUpdateWitness ==
    /\ Done("patch")
    /\ before = <<"a", "LF">>
    /\ result.on_disk = <<"a", "LF", "b", "LF">>
    /\ result.result = "ok"
    /\ content = <<"b", "LF">>


(***************************************************************************)
(* C20.  Every mutation call ends in exactly one of Committed (result ok,  *)
(* the file holds the buffer with every operation of the batch applied)    *)
(* and Rejected (result error, nothing applied: the file is as it was      *)
(* loaded).                                                                *)
(***************************************************************************)
\* The text of the buffer once every operation of the batch is applied to
\* the document as loaded.
AppliedBuffer ==
    CASE call.kind \in {"patch", "delete"} -> Join(LoopRun.lines)
      [] call.kind = "insert" ->
             Join(InsertLoop(Loaded, SortedInsertions(call.ops), 1,
                             call.require_exact_match).lines)
      [] OTHER -> before \o Terminated(call.ops[1].content_to_append)

Committed == result.result = "ok" /\ content = AppliedBuffer

Rejected == result.result = "error" /\ content = before

CommittedOrRejected ==
    Returned4 => (Committed \/ Rejected)


(***************************************************************************)
(* C21.  In a delete or insert batch no operation is applied to the buffer *)
(* before the content checks of all operations have succeeded: every       *)
(* operation the loop reaches is validated against the document as loaded. *)
(***************************************************************************)
\* The loop of the insert call over its sorted insertions, run on the
\* document as loaded.
InsertLoopRun ==
    InsertLoop(Loaded, SortedInsertions(call.ops), 1, call.require_exact_match)

\* The call got as far as its loop over the operations: the file was read
\* and, in a delete, no overlap was reported.
LoopReached ==
    /\ FileRead
    /\ call.kind = "delete" =>
           /\ ~\E d \in 1..Len(call.ops) : AnyOverlap(call.ops[d].ranges)
           /\ ~AnyOverlap(AllRanges(call.ops))

\* The buffers the operations of the batch were validated against, in the
\* order the loop reached them.
BuffersValidated ==
    IF call.kind = "delete" THEN LoopRun.seen ELSE InsertLoopRun.seen

ChecksPrecedeMutation ==
    (phase = "done" /\ call.kind \in {"delete", "insert"} /\ LoopReached)
    => \A k \in 1..Len(BuffersValidated) : BuffersValidated[k] = Loaded


(***************************************************************************)
(* C22.  A delete whose range has an end smaller than its start is         *)
(* rejected with an error Result and the file is left unchanged, whatever  *)
(* the expected content, the empty string included.                        *)
(***************************************************************************)
\* A range written with an end below its start.
EndBeforeStart(range) == range.end # None /\ range.end[1] < range.start

DeleteRejectsEndBeforeStart ==
    (Done("delete") /\ \E id \in RangeIds : EndBeforeStart(RangeAt(id)))
    => (result.result = "error" /\ content = before)


(***************************************************************************)
(* C23.  Insert and append compare the reference line, or the last line,   *)
(* with context_line, or expected_file_ending, once the line terminator is *)
(* normalized on both sides, in both matching modes: the check is the      *)
(* comparison of the two strings without their final newline, so its       *)
(* outcome depends neither on the file's line ending with a terminator nor *)
(* on the caller's string ending with one.                                 *)
(***************************************************************************)
\* A string without the newline that ends it, if any.
WithoutTerminator(s) ==
    IF EndsWithNewline(s) THEN SubSeq(s, 1, Len(s) - 1) ELSE s

\* The reasons of a failed context_line or expected_file_ending check.
ContextErrors ==
    {"Content does not match expected context",
     "Final line does not match expected content"}

ContextCheckIgnoresTerminators ==
    (/\ phase = "done"
     /\ call.kind \in {"insert", "append"}
     /\ FileRead
     /\ OneTargetInFile)
    => (result.reason \notin ContextErrors
           <=> _content_matches(WithoutTerminator(TargetContent),
                                WithoutTerminator(TargetExpected),
                                call.require_exact_match))


(***************************************************************************)
(* Several mutation calls, one after the other, on the shared TextEditor   *)
(* instance, with another process changing the file between two calls.     *)
(* call.n counts the calls made; call.held is the text the instance        *)
(* handled in its previous call (<<>> before the first call, else <<text>>)*)
(* and call.cached the text it handled in this one: the instance keeps     *)
(* neither, they are recorded to state that no call uses them.             *)
(***************************************************************************)
\* The number of calls made on the instance in one behaviour.
MaxCalls == 2

\* Requests on line 1 or 2 that write or insert "b", in UTF-8.
SeqRequests(kind) ==
    {req \in RaceRequests(kind) :
        IF kind = "insert"
        THEN /\ req.ops[1].content_to_insert = <<"b">>
             /\ req.ops[1].position = "after"
        ELSE /\ req.ops[1].ranges[1] \in {Range(1, <<1>>), Range(2, <<2>>)}
             /\ (kind = "patch" => req.ops[1].new_string = <<"b">>)}

\* A call that worked on the text the instance handled in its previous
\* call, when there was one, instead of reading the file.
DocumentFromPreviousCall(held, on_disk) ==
    IF held = <<>> THEN on_disk ELSE held[1]

\* await self.read_file_contents(file_path, encoding=encoding): every call
\* reads the file; nothing of an earlier call is used.
document_of_call(held, on_disk) == on_disk

InitSeq ==
    /\ exists = TRUE
    /\ content \in RaceFiles
    /\ phase = "idle"
    /\ call = [kind |-> "none", ops |-> <<>>, encoding |-> "utf-8",
               require_exact_match |-> FALSE, n |-> 0, held |-> <<>>,
               cached |-> <<>>]
    /\ before = content
    /\ result = NoResult

\* One call of patch, delete or insert, from its read to its Result.
SeqCall ==
    /\ phase = "idle"
    /\ call.n < MaxCalls
    /\ \E kind \in RaceKinds :
          \E req \in SeqRequests(kind) :
             LET text == document_of_call(call.cached, content)
                 out == EngineOn(kind, req, text)
             IN /\ call' = [kind |-> kind, ops |-> req.ops,
                            encoding |-> req.encoding,
                            require_exact_match |-> req.require_exact_match,
                            n |-> call.n + 1, held |-> call.cached,
                            cached |-> <<IF out.res.result = "ok"
                                         THEN out.content ELSE text>>]
                /\ result' = out.res
                /\ content' = IF out.res.result = "ok" THEN out.content
                              ELSE content
    /\ before' = content
    /\ phase' = "done"
    /\ UNCHANGED exists

\* The Result has been delivered; the instance is ready for the next call.
SeqReturn ==
    /\ phase = "done"
    /\ phase' = "idle"
    /\ UNCHANGED <<exists, content, call, before, result>>

\* Another process rewrites the file between two calls.
ExternalChange ==
    /\ phase = "idle"
    /\ call.n \in 1..(MaxCalls - 1)
    /\ content' \in RaceFiles \ {content}
    /\ UNCHANGED <<exists, phase, call, before, result>>

NextSeq == SeqCall \/ SeqReturn \/ ExternalChange

SpecSeq == InitSeq /\ [][NextSeq]_vars

RECURSIVE ReadlinesScan(_, _, _)
ReadlinesScan(s, i, from) ==
    IF i > Len(s)
    THEN IF from <= Len(s) THEN <<SubSeq(s, from, Len(s))>> ELSE <<>>
    ELSE IF s[i] = "LF"
    THEN <<SubSeq(s, from, i)>> \o ReadlinesScan(s, i + 1, i + 1)
    ELSE ReadlinesScan(s, i + 1, from)

\* _read_file: `lines`, with open(file_path, "r") and f.readlines().
readlines(text) == ReadlinesScan(UniversalNewlines(text), 1, 1)

\* lines[lo:hi] for 0 <= lo and any hi: a negative hi counts from the end
\* of the list.
PySliceFromEnd(lines, lo, hi) ==
    LET top == IF hi < 0
               THEN (IF Len(lines) + hi < 0 THEN 0 ELSE Len(lines) + hi)
               ELSE IF hi > Len(lines) THEN Len(lines) ELSE hi
    IN IF top <= lo THEN <<>> ELSE SubSeq(lines, lo + 1, top)

\* The entry read_multiple_ranges returns for one range of a file.
read_multiple_ranges(text, range_spec) ==
    LET lines == readlines(text)
        total_lines == Len(lines)
        start == (IF range_spec.start < 1 THEN 1 ELSE range_spec.start) - 1
        end == IF range_spec.end = None THEN total_lines
               ELSE IF range_spec.end[1] < total_lines THEN range_spec.end[1]
               ELSE total_lines
        selected == Join(PySliceFromEnd(lines, start, end))
    IN IF start >= total_lines
       THEN [result |-> "read", content |-> <<>>, start |-> start + 1,
             end |-> start + 1, total_lines |-> total_lines,
             content_size |-> 0]
       ELSE [result |-> "read", content |-> selected, start |-> start + 1,
             end |-> end, total_lines |-> total_lines,
             content_size |-> Len(selected)]

\* The ranges a reader may ask for in a file of n lines: any start and end
\* from below the first line to beyond the last, or an open end.
ReadRanges(n) ==
    {Range(s, e) : s \in (-1)..(n + 1),
                   e \in {None} \cup {<<x>> : x \in (-2)..(n + 1)}}

InitRead ==
    /\ exists = TRUE
    /\ content \in Files
    /\ phase = "idle"
    /\ call = NoCall
    /\ before = content
    /\ result = NoResult

\* read_multiple_ranges on the file, read as UTF-8.
ReadCall ==
    /\ phase = "idle"
    /\ \E range_spec \in ReadRanges(Len(readlines(content))) :
          /\ call' = [kind |-> "read", ops |-> <<range_spec>>,
                      encoding |-> "utf-8", require_exact_match |-> FALSE]
          /\ result' = read_multiple_ranges(content, range_spec)
    /\ before' = content
    /\ phase' = "done"
    /\ UNCHANGED <<exists, content>>

NextRead == ReadCall

SpecRead == InitRead /\ [][NextRead]_vars

(***************************************************************************)
(* C25.  For every requested range, any integer start and any integer or   *)
(* null end, the read-range query returns the concatenation of the lines   *)
(* numbered max(1, start) through min(end, total_lines) (total_lines when  *)
(* end is null), with total_lines and with content_size the length of that *)
(* content; a start beyond the last line yields empty content and          *)
(* content_size 0; the file is not modified.                               *)
(***************************************************************************)
\* The lines numbered lo through hi of a document, none when hi < lo.
LinesThrough(lines, lo, hi) ==
    Join([k \in 1..(IF hi < lo THEN 0 ELSE hi - lo + 1) |-> lines[lo + k - 1]])

ReadReturnsClampedRange ==
    Done("read") =>
        LET lines == readlines(before)
            total == Len(lines)
            range == call.ops[1]
            lo == IF range.start < 1 THEN 1 ELSE range.start
            hi == IF range.end = None \/ range.end[1] > total THEN total
                  ELSE range.end[1]
        IN /\ result.content = LinesThrough(lines, lo, hi)
           /\ result.total_lines = total
           /\ result.content_size = Len(result.content)
           /\ range.start > total
                  => (result.content = <<>> /\ result.content_size = 0)
           /\ content = before


(***************************************************************************)
(* ToolManager.call_tool (server.py): the dispatch of a tool call by name, *)
(* in the mode the server was started with, to the run_tool of a handler   *)
(* acting on one file.  call.name is the tool name, call.mode the mode,    *)
(* call.existed whether the file existed before the call; result.handler   *)
(* is the handler whose run_tool was entered ("none" if none was).         *)
(***************************************************************************)
\* args.mode: None (shown as "default") or "claude-code".
Modes == {"default", "claude-code"}

\* self.all_tools, by name.
AllTools ==
    {"get_text_file_contents", "create_text_file",
     "append_text_file_contents", "delete_text_file_contents",
     "insert_text_file_contents", "patch_text_file_contents"}

\* The names a client may send: the six tools and a name of no tool.
ToolNames == AllTools \cup {"unknown_tool"}

\* A server that offers every tool in every mode.
EveryToolInEveryMode(mode) == AllTools

\* ToolManager.get_available_tools, by name.
get_available_tools(mode) ==
    IF mode = "claude-code" THEN {"patch_text_file_contents"} ELSE AllTools

\* The engine method behind a mutation tool.
KindOfTool(name) ==
    CASE name = "patch_text_file_contents" -> "patch"
      [] name = "delete_text_file_contents" -> "delete"
      [] name = "insert_text_file_contents" -> "insert"
      [] OTHER -> "append"

\* The text create_text_file may be asked to write.
CreateContents == {<<"a", "LF">>, <<"b">>}

\* The arguments sent with a tool name.
ToolRequests(name) ==
    CASE name \in {"get_text_file_contents", "unknown_tool"} ->
           {Request(<<>>, "utf-8", FALSE)}
      [] name = "create_text_file" ->
           {Request(<<contents>>, "utf-8", FALSE) : contents \in CreateContents}
      [] OTHER ->
           {req \in PathRequests(KindOfTool(name)) : req.encoding = "utf-8"}

\* What a tool call gives: how it ended, the handler entered, and the file.
ToolOutcome(how, reason, handler, file_exists, text) ==
    [res |-> [result |-> how, reason |-> reason, suggestion |-> "",
              hint |-> "", handler |-> handler],
     exists |-> file_exists, content |-> text]

\* run_tool of the handler with the given name, on a file with an absolute
\* path.  Every exception leaves run_tool as a RuntimeError.
run_tool(name, req) ==
    CASE name = "get_text_file_contents" ->
           IF exists
           THEN ToolOutcome("returned", "", name, exists, content)
           ELSE ToolOutcome("raised", "RuntimeError", name, exists, content)
      [] name = "create_text_file" ->
           IF exists
           THEN ToolOutcome("raised", "RuntimeError", name, exists, content)
           ELSE ToolOutcome("returned", "", name, TRUE, req.ops[1])
      [] OTHER ->
           IF ~exists
           THEN ToolOutcome("raised", "RuntimeError", name, exists, content)
           ELSE LET out == Engine(KindOfTool(name), req)
                IN IF name = "append_text_file_contents"
                      /\ out.res.result = "error"
                   THEN ToolOutcome("raised", "RuntimeError", name, exists,
                                    out.content)
                   ELSE ToolOutcome("returned", out.res.result, name, exists,
                                    out.content)

\* ToolManager.call_tool(name, arguments).
call_tool(mode, name, req) ==
    IF name \notin get_available_tools(mode)
    THEN ToolOutcome("raised", "ValueError: Unknown tool", "none", exists,
                     content)
    ELSE IF name \in AllTools THEN run_tool(name, req)
    ELSE ToolOutcome("raised", "ValueError: Unknown tool", "none", exists,
                     content)

InitTools ==
    /\ exists \in BOOLEAN
    /\ content \in {<<>>, <<"a", "LF">>, <<"a">>, <<"b", "LF", "a", "LF">>}
    /\ (~exists => content = <<>>)
    /\ phase = "idle"
    /\ call = NoCall
    /\ before = content
    /\ result = NoResult

ToolCall ==
    /\ phase = "idle"
    /\ \E mode \in Modes, name \in ToolNames :
          \E req \in ToolRequests(name) :
             LET out == call_tool(mode, name, req)
             IN /\ call' = [kind |-> "call_tool", ops |-> req.ops,
                            encoding |-> req.encoding,
                            require_exact_match |-> req.require_exact_match,
                            name |-> name, mode |-> mode, existed |-> exists]
                /\ result' = out.res
                /\ exists' = out.exists
                /\ content' = out.content
    /\ before' = content
    /\ phase' = "done"

NextTools == ToolCall

SpecTools == InitTools /\ [][NextTools]_vars

(***************************************************************************)
(* C26.  call_tool runs a handler only when the tool name is in the tool   *)
(* list of the server's mode: all six tools by default, only               *)
(* patch_text_file_contents in claude-code mode.  For any other name,      *)
(* a tool of the other mode included, it raises ValueError "Unknown tool", *)
(* no handler runs and the file is not touched.                            *)
(***************************************************************************)
\* The tool list of a mode, as documented.
ListedTools(mode) ==
    IF mode = "default"
    THEN {"get_text_file_contents", "create_text_file",
          "append_text_file_contents", "delete_text_file_contents",
          "insert_text_file_contents", "patch_text_file_contents"}
    ELSE {"patch_text_file_contents"}

OnlyListedToolsRun ==
    Done("call_tool") =>
        IF call.name \in ListedTools(call.mode)
        THEN result.handler = call.name
        ELSE /\ result.result = "raised"
             /\ result.reason = "ValueError: Unknown tool"
             /\ result.handler = "none"
             /\ exists = call.existed
             /\ content = before

\* create_text_file called in claude-code mode for a file that does not
\* exist: refused as unknown, and no file is created.
ToolOfOtherModeWitness ==
    /\ Done("call_tool")
    /\ call.mode = "claude-code"
    /\ call.name = "create_text_file"
    /\ ~call.existed
    /\ result.reason = "ValueError: Unknown tool"
    /\ ~exists


(***************************************************************************)
(* C27.  The buffer keeps each line's original terminator through load and *)
(* flush: after a successful patch, delete or insert, every line that the  *)
(* operation did not target is byte-identical to what it was before the    *)
(* call, terminator included.  Stated for calls of one operation (on one   *)
(* in-bounds range for patch and delete): the file is the bytes of the     *)
(* lines before the target, the new content, and the bytes of the lines    *)
(* after it.                                                               *)
(***************************************************************************)
\* The lines of the file as stored, each with the terminator it has on disk.
StoredLines == splitlines(before, TRUE)

\* The bytes of the stored lines numbered lo through hi.
StoredThrough(lo, hi) ==
    Join([k \in 1..(IF hi < lo THEN 0 ELSE hi - lo + 1) |->
              StoredLines[lo + k - 1]])

UntargetedLinesKeepTerminators ==
    (/\ phase = "done"
     /\ call.kind \in {"patch", "delete", "insert"}
     /\ result.result = "ok"
     /\ Len(call.ops) = 1
     /\ call.kind # "insert" => OneRangeInFile)
    => LET op == call.ops[1]
           last == Len(StoredLines)
       IN CASE call.kind = "insert" ->
                 LET at == IF op.position = "before" THEN op.line_number - 1
                           ELSE op.line_number
                 IN content = StoredThrough(1, at)
                                  \o Terminated(op.content_to_insert)
                                  \o StoredThrough(at + 1, last)
            [] OTHER ->
                 LET lo == op.ranges[1].start
                     hi == EndResolved(op.ranges[1], Total)
                 IN content = StoredThrough(1, lo - 1)
                                  \o (IF call.kind = "patch"
                                      THEN Terminated(op.new_string)
                                      ELSE <<>>)
                                  \o StoredThrough(hi + 1, last)


(***************************************************************************)
(* C28.  In every patch or delete batch that passes overlap validation, no *)
(* line of the document is covered by two ranges of the batch, an          *)
(* open-ended range being taken to extend through the last line: an        *)
(* open-ended range and a range that starts after it are never both        *)
(* accepted.                                                               *)
(***************************************************************************)
\* The call read the file and reported no overlap.
PassedOverlapValidation ==
    /\ phase = "done"
    /\ call.kind \in {"patch", "delete"}
    /\ FileRead
    /\ result.reason \notin {WithinReason, AcrossReason}

AcceptedRangesCoverNoLineTwice == PassedOverlapValidation => Disjoint


(***************************************************************************)
(* C29.  The outcome of a patch, delete or insert batch, ok or error and   *)
(* the final content of the file, does not depend on the order in which    *)
(* the request lists its operations: the same operations listed in another *)
(* order give the same outcome, two insertions at one line_number          *)
(* included.                                                               *)
(***************************************************************************)
\* What the call gives on the same file when the request lists the same
\* operations in the opposite order.
OutcomeInOtherOrder ==
    EngineOn(call.kind, [call EXCEPT !.ops = Reversed(call.ops)], before)

OrderOfOperationsIrrelevant ==
    (phase = "done" /\ call.kind \in {"patch", "delete", "insert"} /\ exists)
    => /\ result.result = OutcomeInOtherOrder.res.result
       /\ content = OutcomeInOtherOrder.content


(***************************************************************************)
(* C30.  The line numbering of the mutation calls is the one the           *)
(* read-range query reports: for every file content, lines holding a form  *)
(* feed included, the lines patch, delete and insert number and count for  *)
(* their bounds checks are the lines, and the total_lines, a read of the   *)
(* same file returns.                                                      *)
(***************************************************************************)
SameLineNumberingAsRead ==
    (phase = "done" /\ call.kind \in {"patch", "delete", "insert"} /\ FileRead)
    => /\ Total = read_multiple_ranges(before, Range(1, None)).total_lines
       /\ \A n \in 1..Total :
              Loaded[n] =
                  read_multiple_ranges(before, Range(n, <<n>>)).content


====
